---------------------------- MODULE Spec2Model ----------------------------
(***************************************************************************)
(* A model of the MicroPython stub generator: createstubs.py (the full     *)
(* variant, stubber 1.0.1) and createstubs_min.py (the constrained         *)
(* variant, stubber 1.2.0).  Both run main(): Stubber(), clean(), the      *)
(* catalog loop, report().                                                 *)
(*                                                                         *)
(* Python strings that the code orders, slices, searches or concatenates   *)
(* are sequences of code points; strings that the code only compares for   *)
(* equality (the type tags) are TLA+ strings.                              *)
(***************************************************************************)
EXTENDS Integers, Sequences, FiniteSets, TLC

(***************************************************************************)
(* Bounds of the model.                                                    *)
(***************************************************************************)
\* the largest catalog (self.modules) a run is given
MaxCatalog == 3
\* how many environment faults (OSError of the filesystem, a failing import
\* that is not an ImportError) one run may meet
MaxFaults == 1

(***************************************************************************)
(* String literals of the program.                                         *)
(***************************************************************************)
s_os == <<111, 115>>  \* 'os'
s_sys == <<115, 121, 115>>  \* 'sys'
s_logging == <<108, 111, 103, 103, 105, 110, 103>>  \* 'logging'
s_gc == <<103, 99>>  \* 'gc'
s_errno == <<101, 114, 114, 110, 111>>  \* 'errno'
s_time == <<116, 105, 109, 101>>  \* 'time'
s_utime == <<117, 116, 105, 109, 101>>  \* 'utime'
s_ujson == <<117, 106, 115, 111, 110>>  \* 'ujson'
s_upysh == <<117, 112, 121, 115, 104>>  \* 'upysh'
s_webrepl_setup == <<119, 101, 98, 114, 101, 112, 108, 95, 115, 101, 116, 117, 112>>  \* 'webrepl_setup'
s_http_client == <<104, 116, 116, 112, 95, 99, 108, 105, 101, 110, 116>>  \* 'http_client'
s_http_client_ssl == <<104, 116, 116, 112, 95, 99, 108, 105, 101, 110, 116, 95, 115, 115, 108>>  \* 'http_client_ssl'
s_http_server == <<104, 116, 116, 112, 95, 115, 101, 114, 118, 101, 114>>  \* 'http_server'
s_http_server_ssl == <<104, 116, 116, 112, 95, 115, 101, 114, 118, 101, 114, 95, 115, 115, 108>>  \* 'http_server_ssl'
s_webrepl == <<119, 101, 98, 114, 101, 112, 108>>  \* 'webrepl'
s__webrepl == <<95, 119, 101, 98, 114, 101, 112, 108>>  \* '_webrepl'
s__thread == <<95, 116, 104, 114, 101, 97, 100>>  \* '_thread'
s__boot == <<95, 98, 111, 111, 116>>  \* '_boot'
s_umqtt_simple == <<117, 109, 113, 116, 116, 47, 115, 105, 109, 112, 108, 101>>  \* 'umqtt/simple'
s_umqtt_robust == <<117, 109, 113, 116, 116, 47, 114, 111, 98, 117, 115, 116>>  \* 'umqtt/robust'

t_def == <<100, 101, 102, 32>>  \* 'def '
t_call == <<40, 41, 58, 10>>  \* '():\n'
t_pass == <<32, 32, 32, 32, 112, 97, 115, 115, 10, 10>>  \* '    pass\n\n'
t_assign == <<32, 61, 32>>  \* ' = '
t_nl == <<10>>  \* '\n'
t_class == <<99, 108, 97, 115, 115, 32>>  \* 'class '
t_colon == <<58, 10>>  \* ':\n'
t_doc == <<32, 32, 32, 32, 39, 39, 10>>  \* "    ''\n"
t_none == <<32, 61, 32, 78, 111, 110, 101, 10>>  \* ' = None\n'
t_indent == <<32, 32, 32, 32>>  \* '    '
t_py == <<46, 112, 121>>  \* '.py'
t_hdr_module == <<34, 34, 34, 10, 77, 111, 100, 117, 108, 101, 58, 32, 39>>  \* '"""\nModule: \''
t_hdr_on == <<39, 32, 111, 110, 32>>  \* "' on "
t_hdr_mcu == <<10, 34, 34, 34, 10, 35, 32, 77, 67, 85, 58, 32>>  \* '\n"""\n# MCU: '
t_hdr_stubber == <<10, 35, 32, 83, 116, 117, 98, 98, 101, 114, 58, 32>>  \* '\n# Stubber: '
t_digits == <<48, 49, 50, 51, 52, 53, 54, 55, 56, 57>>  \* '0123456789'

c_slash == 47  \* '/'
c_dot == 46  \* '.'
c_underscore == 95  \* '_'
c_quote == 39  \* "'"

\* stubber_version of each variant
stubber_version_full == <<49, 46, 48, 46, 49>>  \* '1.0.1'
stubber_version_min == <<49, 46, 50, 46, 48>>  \* '1.2.0'

\* the type tags the walker dispatches on
tag_function == "<class 'function'>"
tag_bound_method == "<class 'bound_method'>"
tag_str == "<class 'str'>"
tag_int == "<class 'int'>"
tag_float == "<class 'float'>"
tag_type == "<class 'type'>"

\* the free-heap threshold of include_nested
NestedHeapLimit == 3200

(***************************************************************************)
(* Python's string operations, on sequences of code points.                *)
(***************************************************************************)
Min2(a, b) == IF a <= b THEN a ELSE b

\* s.startswith(p)
StartsWith(s, p) ==
    /\ Len(p) <= Len(s)
    /\ \A i \in 1..Len(p) : s[i] = p[i]

\* c in s, for a one-character c
Contains(s, c) == \E i \in 1..Len(s) : s[i] = c

\* s.replace(c, d), for one-character c and d
Replace(s, c, d) == [i \in 1..Len(s) |-> IF s[i] = c THEN d ELSE s[i]]

\* a < b on str: by code point, a proper prefix first
StrLess(a, b) ==
    \E i \in 1..(Min2(Len(a), Len(b)) + 1) :
        /\ \A j \in 1..(i - 1) : a[j] = b[j]
        /\ \/ i > Len(a) /\ i <= Len(b)
           \/ i <= Len(a) /\ i <= Len(b) /\ a[i] < b[i]

\* str(n) / repr(n) of a non-negative int
RECURSIVE IntToStr(_)
IntToStr(n) ==
    IF n < 10 THEN <<t_digits[n + 1]>>
    ELSE IntToStr(n \div 10) \o <<t_digits[(n % 10) + 1]>>


\* the stable ascending sort of Python's sorted() by string keys (key[i] is the
\* key of seq[i]): the element at position p
\* is the one with exactly p - 1 elements before it in the order (smaller, or
\* equal and earlier in seq)
Sorted(seq, key) ==
    LET n == Len(seq)
        rank == [i \in 1..n |->
                    Cardinality({j \in 1..n : \/ StrLess(key[j], key[i])
                                              \/ ~StrLess(key[i], key[j]) /\ j < i})]
    IN  [p \in 1..n |-> seq[CHOOSE i \in 1..n : rank[i] = p - 1]]

\* x in list
In(x, list) == \E i \in 1..Len(list) : list[i] = x

\* the enumerations of a finite set, each a sequence without repetition
RECURSIVE Perms(_)
Perms(S) ==
    IF S = {} THEN {<<>>}
    ELSE UNION {{<<x>> \o p : p \in Perms(S \ {x})} : x \in S}

(***************************************************************************)
(* The runtime the tool runs on: the objects that are live, their members  *)
(* and what importing a name yields.                                       *)
(***************************************************************************)
a___name__ == <<95, 95, 110, 97, 109, 101, 95, 95>>  \* '__name__'
a___class__ == <<95, 95, 99, 108, 97, 115, 115, 95, 95>>  \* '__class__'
a_getcwd == <<103, 101, 116, 99, 119, 100>>  \* 'getcwd'
a_sep == <<115, 101, 112>>  \* 'sep'
a_f == <<102>>  \* 'f'
a_NAME == <<78, 65, 77, 69>>  \* 'NAME'
a_Inner == <<73, 110, 110, 101, 114>>  \* 'Inner'
a_n == <<110>>  \* 'n'
a_start_new_thread == <<115, 116, 97, 114, 116, 95, 110, 101, 119, 95, 116, 104, 114, 101, 97, 100>>  \* 'start_new_thread'
a_stop == <<115, 116, 111, 112>>  \* 'stop'
a_simple == <<115, 105, 109, 112, 108, 101>>  \* 'simple'
a_Board == <<66, 111, 97, 114, 100>>  \* 'Board'
a_freq == <<102, 114, 101, 113>>  \* 'freq'
a_irq == <<105, 114, 113>>  \* 'irq'
a_ratio == <<114, 97, 116, 105, 111>>  \* 'ratio'
a_Cpu == <<67, 112, 117>>  \* 'Cpu'
a_IN == <<73, 78>>  \* 'IN'
a_pin == <<112, 105, 110>>  \* 'pin'
a_Core == <<67, 111, 114, 101>>  \* 'Core'
a_ls == <<108, 115>>  \* 'ls'
s_umqtt_dot_simple == <<117, 109, 113, 116, 116, 46, 115, 105, 109, 112, 108, 101>>  \* 'umqtt.simple'
s_umqtt == <<117, 109, 113, 116, 116>>  \* 'umqtt'
s_umqtt_dot_robust == <<117, 109, 113, 116, 116, 46, 114, 111, 98, 117, 115, 116>>  \* 'umqtt.robust'
s_does_not_exist == <<100, 111, 101, 115, 95, 110, 111, 116, 95, 101, 120, 105, 115, 116>>  \* 'does_not_exist'
s_sample_mod == <<115, 97, 109, 112, 108, 101, 95, 109, 111, 100>>  \* 'sample_mod'
s_pinlib == <<112, 105, 110, 108, 105, 98>>  \* 'pinlib'
v_x == <<120>>  \* 'x'
v_slash == <<47>>  \* '/'
v_half == <<48, 46, 53>>  \* '0.5'
v_opaque == <<60, 111, 98, 106, 101, 99, 116, 62>>  \* '<object>'
\* self.path, self.firmware_ID() and os.uname() as text, on the modelled board
StubPath == <<47, 115, 116, 117, 98, 115>>  \* '/stubs'
FirmwareID == <<101, 115, 112, 51, 50, 32, 118, 49, 46, 49, 49>>  \* 'esp32 v1.11'
Uname == <<40, 115, 121, 115, 110, 97, 109, 101, 61, 39, 101, 115, 112, 51, 50, 39, 41>>  \* "(sysname='esp32')"

\* live objects are handles; none of them is a str
NoObj == <<0>>
O_os == <<1>>
O_sample_mod == <<2>>
O_Inner == <<3>>
O_thread == <<4>>
O_webrepl == <<5>>
O_umqtt == <<6>>
O_pinlib == <<7>>
O_Board == <<8>>
O_Cpu == <<9>>
O_Core == <<10>>
O_type == <<11>>
O_upysh == <<12>>
O_boot == <<13>>

\* a live value: its type tag repr(type(val)), what its repr is made of, and
\* the object it is (for a class)
Val(type, text, num, ref) == [type |-> type, text |-> text, num |-> num, ref |-> ref]
VFunction == Val(tag_function, v_opaque, 0, NoObj)
VBoundMethod == Val(tag_bound_method, v_opaque, 0, NoObj)
VStr(s) == Val(tag_str, s, 0, NoObj)
VInt(n) == Val(tag_int, <<>>, n, NoObj)
VFloat(text) == Val(tag_float, text, 0, NoObj)
VType(o) == Val(tag_type, v_opaque, 0, o)
VOther(tag) == Val(tag, v_opaque, 0, NoObj)

\* one member of an object; raises: getattr may raise for it
Attr(name, val, raises) == [name |-> name, val |-> val, raises |-> raises]

Objects ==
    {O_os, O_sample_mod, O_Inner, O_thread, O_webrepl, O_umqtt, O_pinlib, O_Board,
     O_Cpu, O_Core, O_type, O_upysh, O_boot}

\* the members of every live object
MemberTable ==
  [obj \in Objects |->
    CASE obj = O_os ->
            {Attr(a___name__, VStr(s_os), FALSE), Attr(a_getcwd, VFunction, FALSE),
             Attr(a_sep, VStr(v_slash), FALSE)}
      [] obj = O_sample_mod ->
            {Attr(a___name__, VStr(s_sample_mod), FALSE), Attr(a_f, VFunction, FALSE),
             Attr(a_NAME, VStr(v_x), FALSE), Attr(a_Inner, VType(O_Inner), FALSE)}
      [] obj = O_Inner ->
            {Attr(a___name__, VStr(a_Inner), FALSE), Attr(a_n, VInt(1), FALSE)}
      [] obj = O_thread ->
            {Attr(a_start_new_thread, VFunction, FALSE)}
      [] obj = O_webrepl ->
            {Attr(a_stop, VFunction, FALSE)}
      [] obj = O_umqtt ->
            {Attr(a___name__, VStr(s_umqtt), FALSE), Attr(a_simple, VOther("<class 'module'>"), FALSE)}
      [] obj = O_pinlib ->
            {Attr(a_Board, VType(O_Board), FALSE), Attr(a_freq, VBoundMethod, FALSE),
             Attr(a_irq, VFunction, TRUE), Attr(a_ratio, VFloat(v_half), TRUE)}
      [] obj = O_Board ->
            {Attr(a___class__, VType(O_type), FALSE), Attr(a_Cpu, VType(O_Cpu), FALSE),
             Attr(a_IN, VInt(10), FALSE), Attr(a_pin, VOther("<class 'Pin'>"), TRUE)}
      [] obj = O_Cpu ->
            {Attr(a_Core, VType(O_Core), FALSE), Attr(a_n, VInt(2), FALSE)}
      [] obj = O_Core ->
            {Attr(a___name__, VStr(a_Core), FALSE)}
      [] obj = O_upysh ->
            {Attr(a_ls, VOther("<class 'LS'>"), FALSE)}
      [] OTHER -> {}]
Members(obj) == MemberTable[obj]

\* the names dir(obj) enumerates, in no guaranteed order
DirNames(obj) == {a.name : a \in Members(obj)}
\* the names of obj for which getattr may raise
MayRaise(obj) == {a.name : a \in {b \in Members(obj) : b.raises}}
\* getattr(obj, name), when it does not raise
GetAttr(obj, name) == (CHOOSE a \in Members(obj) : a.name = name).val

\* what __import__(name) returns when the module is on the runtime: the
\* top-level package of a dotted name
ImportTable ==
    {<<s_os, O_os>>, <<s_sample_mod, O_sample_mod>>, <<s__thread, O_thread>>,
     <<s_webrepl, O_webrepl>>, <<s_umqtt_dot_simple, O_umqtt>>, <<s_umqtt_dot_robust, O_umqtt>>,
     <<s_pinlib, O_pinlib>>,
     <<s_upysh, O_upysh>>, <<s__boot, O_boot>>}
OnRuntime(name) == \E e \in ImportTable : e[1] = name
Imported(name) == (CHOOSE e \in ImportTable : e[1] = name)[2]
\* the names an import of name puts into sys.modules: itself and its packages
CacheNames(name) ==
    {name} \cup {SubSeq(name, 1, i - 1) : i \in {j \in 1..Len(name) : name[j] = c_dot}}

\* the module names a catalog is drawn from
Universe ==
    {s_os, s_does_not_exist, s_sample_mod, s__thread, s__boot, s_upysh, s_webrepl,
     s_umqtt_simple, s_umqtt_robust, s_pinlib}
\* the free-heap readings gc.mem_free() may return
MemReadings == {NestedHeapLimit, NestedHeapLimit + 1}

(***************************************************************************)
(* The pure parts of Stubber.                                              *)
(***************************************************************************)
\* self.problematic, self.excluded, and the modules that are never unloaded
problematic ==
    <<s_upysh, s_webrepl_setup, s_http_client, s_http_client_ssl, s_http_server,
      s_http_server_ssl>>
excluded == <<s_webrepl, s__webrepl, s_webrepl_setup>>
KeepLoaded == <<s_os, s_sys, s_logging, s_gc>>

\* module_name.startswith("_") and module_name != '_thread'
IsInternal(module_name) == StartsWith(module_name, <<c_underscore>>) /\ module_name # s__thread
\* '/' in module_name
IsNested(module_name) == Contains(module_name, c_slash)
\* IsDunder that skips nothing
SkipsNothing(name) == FALSE

\* name.startswith("__")
IsDunder(name) == StartsWith(name, <<c_underscore, c_underscore>>)

\* "{}/{}.py".format(self.path, module_name.replace(".", "/"))
FileName(module_name) ==
    StubPath \o <<c_slash>> \o Replace(module_name, c_dot, c_slash) \o t_py

\* the header create_module_stub / dump_module_stub writes first
Header(version, module_name) ==
    t_hdr_module \o module_name \o t_hdr_on \o FirmwareID \o t_hdr_mcu \o Uname
        \o t_hdr_stubber \o version \o t_nl

\* Repr that takes the text of the value as it is
ReprText(val) == val.text

\* repr(val)
Repr(val) ==
    IF val.type = tag_str THEN <<c_quote>> \o val.text \o <<c_quote>>
    ELSE IF val.type = tag_int THEN IntToStr(val.num)
    ELSE val.text

\* the folders ensure_folder(path) looks at, outermost first: one for every
\* '/' of path
FolderPrefixes(path) ==
    LET at == {i \in 1..Len(path) : path[i] = c_slash}
        nth(k) == CHOOSE i \in at : Cardinality({j \in at : j < i}) = k - 1
    IN  [k \in 1..Cardinality(at) |->
            IF nth(k) = 1 THEN <<path[1]>> ELSE SubSeq(path, 1, nth(k) - 1)]

\* get_obj_attributes without its try / except: the first getattr that
\* raises ends the call
GetObjAttributesUncaught(obj, order, failing) ==
    LET item(name) == [name |-> name, rep |-> Repr(GetAttr(obj, name)),
                       typ |-> GetAttr(obj, name).type, obj |-> GetAttr(obj, name).ref]
        firstBad == IF \E i \in 1..Len(order) : order[i] \in failing
                       THEN CHOOSE i \in 1..Len(order) :
                               /\ order[i] \in failing
                               /\ \A j \in 1..(i - 1) : order[j] \notin failing
                       ELSE Len(order) + 1
    IN  [result |-> [i \in 1..(firstBad - 1) |-> item(order[i])],
         errors |-> <<>>,
         raised |-> firstBad <= Len(order)]

\* get_obj_attributes(obj), where dir(obj) enumerates order and getattr
\* raises for the names in failing: (result, errors); raised tells whether
\* an exception leaves the call
GetObjAttributes(obj, order, failing) ==
    LET ok(name) == name \notin failing
        bad(name) == name \in failing
        item(name) == [name |-> name, rep |-> Repr(GetAttr(obj, name)),
                       typ |-> GetAttr(obj, name).type, obj |-> GetAttr(obj, name).ref]
        good == SelectSeq(order, ok)
        failed == SelectSeq(order, bad)
    IN  [result |-> [i \in 1..Len(good) |-> item(good[i])],
         errors |-> [i \in 1..Len(failed) |-> [name |-> failed[i], obj |-> obj]],
         raised |-> FALSE]

\* what get_obj_attributes(obj) may return: dir(obj) enumerates the names in
\* any order, and getattr raises for any of the names that may raise
AttributeOutcomes ==
    [obj \in Objects |->
        {GetObjAttributes(obj, order, failing) :
            order \in Perms(DirNames(obj)), failing \in SUBSET MayRaise(obj)}]

\* SortedItems without the sort: the items in the order dir() gave them
UnsortedItems(items) == items

\* sorted(items, key=lambda x: x[0])
SortedItems(items) == Sorted(items, [i \in 1..Len(items) |-> items[i].name])

\* what the walker has when its loop starts, for every outcome of
\* get_obj_attributes(obj): the sorted items, and the errors
WalkOutcomes ==
    [obj \in Objects |->
        {[items |-> SortedItems(r.result), errors |-> r.errors, raised |-> r.raised,
          resolved |-> Len(r.result)] : r \in AttributeOutcomes[obj]}]

\* Category without the test of indent: a class is expanded at every depth
CategoryAnyDepth(typ, indent) ==
    IF typ \in {tag_function, tag_bound_method} THEN "Callable"
    ELSE IF typ \in {tag_str, tag_int, tag_float} THEN "PrimitiveLiteral"
    ELSE IF typ = tag_type THEN "CompositeType"
    ELSE "Opaque"

\* the branch of the walker's if / elif chain an item takes
Category(typ, indent) ==
    IF typ \in {tag_function, tag_bound_method} THEN "Callable"
    ELSE IF typ \in {tag_str, tag_int, tag_float} THEN "PrimitiveLiteral"
    ELSE IF typ = tag_type /\ indent = <<>> THEN "CompositeType"
    ELSE "Opaque"

\* the text the branch writes
Fragment(item, indent) ==
    LET cat == Category(item.typ, indent)
    IN  IF cat = "Callable"
            THEN indent \o t_def \o item.name \o t_call \o indent \o t_pass
        ELSE IF cat = "PrimitiveLiteral"
            THEN indent \o item.name \o t_assign \o item.rep \o t_nl
        ELSE IF cat = "CompositeType"
            THEN t_nl \o indent \o t_class \o item.name \o t_colon \o indent \o t_doc
        ELSE indent \o item.name \o t_none

(***************************************************************************)
(* The state of a run of main().                                           *)
(***************************************************************************)
VARIABLES
    variant,         \* "full": createstubs.py, "min": createstubs_min.py
    modules,         \* self.modules, the catalog
    include_nested,  \* self.include_nested (min only)
    m1,              \* the loop's reading of gc.mem_free() before a module (min only)
    heap,            \* what gc.mem_free() gives at the head of the current iteration
                     \* (min only), whether or not the loop asks for it
    todo,            \* the sequence the catalog loop iterates over
    idx,             \* the loop's position in todo
    pc,              \* where main() is
    module_name,     \* stub_one_module's module_name
    file_name,       \* stub_one_module's file_name
    new_module,      \* stub_one_module's new_module
    stack,           \* the frames of the walker, innermost last
    fp,              \* the name of the file the with block holds open, or <<>>
    files,           \* the stub folder: file name -> the strings written to it
    folders,         \* the folders that exist
    sys_modules,     \* the names in sys.modules
    report,          \* self._report
    report_file,     \* modules.json: whether it was written, and its records
    faults,          \* the environment faults met so far
    attempted,       \* history: the names __import__ was called with
    wd,              \* history: watchdog resets of the current module walk, and
                     \* what was resolved and written since the last one
    exc              \* history: the exceptions that left stub_one_module

vars ==
    <<variant, modules, include_nested, m1, heap, todo, idx, pc, module_name, file_name,
      new_module, stack, fp, files, folders, sys_modules, report, report_file, faults,
      attempted, wd, exc>>

\* the catalogs a run may be given: up to MaxCatalog names, in sorted order
\* and the sample catalog of the end-to-end test
SampleCatalog == <<s_os, s_does_not_exist, s_sample_mod>>
Catalogs ==
    {LET q == CHOOSE p \in Perms(S) : TRUE IN Sorted(q, q) :
        S \in {T \in SUBSET Universe : Cardinality(T) <= MaxCatalog}}
    \cup {SampleCatalog}

\* a module record of the report, and the two records that head it
ModuleRecord(name, file) == [kind |-> "module", module |-> name, file |-> file]
FirmwareRecord == [kind |-> "firmware", module |-> FirmwareID, file |-> <<>>]
StubberRecord(version) == [kind |-> "stubber", module |-> version, file |-> <<>>]

\* a file left in the stub folder by an earlier run
StaleFile == FileName(s_sample_mod)
NoWatch == [yields |-> 0, resolved |-> 0, written |-> 0]

\* the state after Stubber()
Init ==
    /\ variant \in {"full", "min"}
    /\ modules \in Catalogs
    /\ \E r \in MemReadings :
          include_nested = (variant = "min" /\ r > NestedHeapLimit)
    /\ m1 = 0
    /\ heap = 0
    /\ todo = <<>>
    /\ idx = 0
    /\ pc = "clean"
    /\ module_name = <<>>
    /\ file_name = <<>>
    /\ new_module = NoObj
    /\ stack = <<>>
    /\ fp = <<>>
    /\ files \in {<<>>, [f \in {StaleFile} |-> <<t_nl>>]}
    /\ folders = {<<c_slash>>, StubPath}
    /\ sys_modules = IF variant = "full"
                        THEN {s_errno, s_gc, s_logging, s_os, s_time, s_ujson}
                        ELSE {s_errno, s_gc, s_os, s_sys, s_utime, s_ujson}
    /\ report = IF variant = "full"
                   THEN <<FirmwareRecord, StubberRecord(stubber_version_full)>>
                   ELSE <<>>
    /\ report_file = [written |-> FALSE, body |-> <<>>]
    /\ faults = 0
    /\ attempted = {}
    /\ wd = NoWatch
    /\ exc = <<>>

top == stack[Len(stack)]
SetTop(frame) == [stack EXCEPT ![Len(stack)] = frame]

\* a fresh walker frame: the arguments of write_object_stub
Frame(obj, obj_name, indent) ==
    [obj |-> obj, obj_name |-> obj_name, indent |-> indent, phase |-> "enter",
     items |-> <<>>, errors |-> <<>>, k |-> 0, dir |-> {}, yields |-> 0,
     emitted |-> <<>>]

\* an exception leaves stub_one_module: the with block closes the file; the
\* loop of create_all_stubs swallows it, generate_all_stubs lets it through
\* to main()
Propagate(kind) ==
    /\ exc' = Append(exc, kind)
    /\ stack' = <<>>
    /\ fp' = <<>>
    /\ pc' = IF variant = "min" THEN "after" ELSE "aborted"

\* clean(): remove the files of the stub folder
Clean ==
    /\ pc = "clean"
    /\ files' = <<>>
    /\ pc' = "start"
    /\ UNCHANGED <<heap, variant, modules, include_nested, m1, todo, idx, module_name,
                   file_name, new_module, stack, fp, folders, sys_modules, report,
                   report_file, faults, attempted, wd, exc>>

\* the modules the min loop goes through: the nested names first
NestedFirst(ms) ==
    LET nested(m) == IsNested(m)
        flat(m) == ~IsNested(m)
    IN  SelectSeq(ms, nested) \o SelectSeq(ms, flat)

\* the head of generate_all_stubs / create_all_stubs
StartLoop ==
    /\ pc = "start"
    /\ modules' = IF variant = "min" THEN NestedFirst(modules) ELSE modules
    /\ todo' = IF variant = "min" THEN NestedFirst(modules) ELSE Sorted(modules, modules)
    /\ idx' = 1
    /\ pc' = "loop"
    /\ UNCHANGED <<heap, variant, include_nested, m1, module_name, file_name, new_module,
                   stack, fp, files, folders, sys_modules, report, report_file, faults,
                   attempted, wd, exc>>

\* whether the loop itself passes over a name
LoopSkips(name) ==
    IF variant = "full"
        THEN StartsWith(name, <<c_underscore>>)
        ELSE IsInternal(name) \/ In(name, problematic) \/ In(name, excluded)

\* if self.include_nested: self.include_nested = gc.mem_free() > 3200
Reread(r) ==
    IF variant = "min" /\ include_nested THEN r > NestedHeapLimit ELSE include_nested

\* one iteration that passes over its name
LoopSkip ==
    /\ pc = "loop"
    /\ idx <= Len(todo)
    /\ LoopSkips(todo[idx])
    /\ \E r \in MemReadings :
          /\ heap' = (IF variant = "min" THEN r ELSE heap)
          /\ include_nested' = Reread(r)
    /\ idx' = idx + 1
    /\ UNCHANGED <<variant, modules, m1, todo, pc, module_name, file_name, new_module,
                   stack, fp, files, folders, sys_modules, report, report_file, faults,
                   attempted, wd, exc>>

\* one iteration up to its call of stub_one_module
LoopCall ==
    /\ pc = "loop"
    /\ idx <= Len(todo)
    /\ ~LoopSkips(todo[idx])
    /\ \E r \in MemReadings :
          /\ heap' = (IF variant = "min" THEN r ELSE heap)
          /\ include_nested' = Reread(r)
    /\ \E r \in MemReadings : m1' = IF variant = "min" THEN r ELSE m1
    /\ module_name' = todo[idx]
    /\ file_name' = FileName(todo[idx])
    /\ pc' = "stub"
    /\ UNCHANGED <<variant, modules, todo, idx, new_module, stack, fp, files, folders,
                   sys_modules, report, report_file, faults, attempted, wd, exc>>

\* the rest of an iteration, after stub_one_module returned or (min) raised
LoopAfter ==
    /\ pc = "after"
    /\ idx' = idx + 1
    /\ module_name' = <<>>
    /\ file_name' = <<>>
    /\ new_module' = NoObj
    /\ wd' = NoWatch
    /\ pc' = "loop"
    /\ UNCHANGED <<heap, variant, modules, include_nested, m1, todo, stack, fp, files,
                   folders, sys_modules, report, report_file, faults, attempted, exc>>

\* the loop is through the catalog; main() goes on to report()
LoopEnd ==
    /\ pc = "loop"
    /\ idx > Len(todo)
    /\ pc' = "report"
    /\ UNCHANGED <<heap, variant, modules, include_nested, m1, todo, idx, module_name,
                   file_name, new_module, stack, fp, files, folders, sys_modules,
                   report, report_file, faults, attempted, wd, exc>>

(***************************************************************************)
(* stub_one_module: create_module_stub (min) / dump_module_stub (full).    *)
(***************************************************************************)
\* ensure_folder(path) without a failure: every folder on the way exists after
EnsureFolder(path, existing) ==
    existing \cup {FolderPrefixes(path)[k] : k \in 1..Len(FolderPrefixes(path))}

\* the module name the import is given: '/' becomes '.'
DottedName(name) == Replace(name, c_slash, c_dot)

\* the checks before the import: an internal or problematic name returns, a
\* nested name gets its folder and returns too unless nested modules are
\* stubbed (never in full, include_nested in min)
StubEntry ==
    /\ pc = "stub"
    /\ IF IsInternal(module_name) \/ In(module_name, problematic)
          THEN /\ pc' = "after"
               /\ UNCHANGED <<module_name, folders>>
          ELSE IF IsNested(module_name)
          THEN /\ folders' = EnsureFolder(file_name, folders)
               /\ module_name' = DottedName(module_name)
               /\ pc' = IF variant = "min" /\ include_nested THEN "import" ELSE "after"
          ELSE /\ pc' = "import"
               /\ UNCHANGED <<module_name, folders>>
    /\ UNCHANGED <<heap, variant, modules, include_nested, m1, todo, idx, file_name,
                   new_module, stack, fp, files, sys_modules, report, report_file,
                   faults, attempted, wd, exc>>

\* ensure_folder raises OSError at its j-th folder (os.stat or os.mkdir fails)
StubEntryFolderFault ==
    /\ pc = "stub"
    /\ ~(IsInternal(module_name) \/ In(module_name, problematic))
    /\ IsNested(module_name)
    /\ faults < MaxFaults
    /\ faults' = faults + 1
    /\ \E j \in 1..Len(FolderPrefixes(file_name)) :
          folders' = folders \cup {FolderPrefixes(file_name)[k] : k \in 1..(j - 1)}
    /\ Propagate("OSError")
    /\ UNCHANGED <<heap, variant, modules, include_nested, m1, todo, idx, module_name,
                   file_name, new_module, files, sys_modules, report, report_file,
                   attempted, wd>>

\* ImportHandler without "except ImportError": every exception leaves
ImportHandlerRaises(kind) == "raise"

\* what the try around the import does with an exception of the import:
\* "except ImportError" returns; anything else reaches "except e", whose e
\* is unbound, and leaves as a NameError
ImportHandler(kind) == IF kind = "ImportError" THEN "return" ELSE "raise"

\* new_module = __import__(module_name), for a module that is on the runtime
\* or is not (ImportError)
ImportModule ==
    /\ pc = "import"
    /\ attempted' = attempted \cup {module_name}
    /\ IF OnRuntime(module_name)
          THEN /\ new_module' = Imported(module_name)
               /\ sys_modules' = sys_modules \cup CacheNames(module_name)
               /\ pc' = "open"
               /\ UNCHANGED <<stack, fp, exc>>
          ELSE IF ImportHandler("ImportError") = "return"
          THEN /\ pc' = "after"
               /\ UNCHANGED <<new_module, sys_modules, stack, fp, exc>>
          ELSE /\ Propagate("ImportError")
               /\ UNCHANGED <<new_module, sys_modules>>
    /\ UNCHANGED <<heap, variant, modules, include_nested, m1, todo, idx, module_name,
                   file_name, files, folders, report, report_file, faults, wd>>

\* the import of a module that is on the runtime raises something that is no
\* ImportError (MemoryError, an error of the module's own code)
ImportFault ==
    /\ pc = "import"
    /\ OnRuntime(module_name)
    /\ faults < MaxFaults
    /\ faults' = faults + 1
    /\ attempted' = attempted \cup {module_name}
    /\ IF ImportHandler("MemoryError") = "return"
          THEN /\ pc' = "after"
               /\ UNCHANGED <<stack, fp, exc>>
          ELSE Propagate("NameError")
    /\ UNCHANGED <<heap, variant, modules, include_nested, m1, todo, idx, module_name,
                   file_name, new_module, files, folders, sys_modules, report,
                   report_file, wd>>

\* whether the module gets walked once its file is open: full leaves an
\* excluded module with its header only
WalksModule(name) == variant = "min" \/ ~In(name, excluded)

\* open(file_name, "w") and the header; then the walk starts, or (full, an
\* excluded module) the with block ends
OpenStub ==
    /\ pc = "open"
    /\ files' = [f \in DOMAIN files \cup {file_name} |->
                    IF f = file_name
                       THEN <<Header(IF variant = "min" THEN stubber_version_min
                                     ELSE stubber_version_full, module_name)>>
                       ELSE files[f]]
    /\ wd' = NoWatch
    /\ IF WalksModule(module_name)
          THEN /\ fp' = file_name
               /\ stack' = <<Frame(new_module, module_name, <<>>)>>
               /\ pc' = "walk"
          ELSE /\ fp' = <<>>
               /\ stack' = <<>>
               /\ pc' = "unload"
    /\ UNCHANGED <<heap, variant, modules, include_nested, m1, todo, idx, module_name,
                   file_name, new_module, folders, sys_modules, report, report_file,
                   faults, attempted, exc>>

\* open(file_name, "w") raises OSError
OpenFault ==
    /\ pc = "open"
    /\ faults < MaxFaults
    /\ faults' = faults + 1
    /\ Propagate("OSError")
    /\ UNCHANGED <<heap, variant, modules, include_nested, m1, todo, idx, module_name,
                   file_name, new_module, files, folders, sys_modules, report,
                   report_file, attempted, wd>>

(***************************************************************************)
(* The walker: write_object_stub (min) / _dump_object_stubs (full).        *)
(***************************************************************************)
\* the guard, get_obj_attributes and sorted(): the loop is ready to run
WalkEnter ==
    /\ pc = "walk"
    /\ top.phase = "enter"
    /\ IF In(top.obj, problematic)
          THEN /\ stack' = SubSeq(stack, 1, Len(stack) - 1)
               /\ pc' = IF Len(stack) = 1 THEN "record" ELSE "walk"
               /\ UNCHANGED <<fp, wd, exc>>
          ELSE \E r \in WalkOutcomes[top.obj] :
                      IF r.raised
                         THEN /\ Propagate("AttributeError")
                              /\ UNCHANGED wd
                         ELSE /\ stack' = SetTop([top EXCEPT !.phase = "loop",
                                                             !.items = r.items,
                                                             !.errors = r.errors,
                                                             !.k = 1,
                                                             !.dir = DirNames(top.obj)])
                              /\ wd' = [wd EXCEPT !.resolved = @ + r.resolved]
                              /\ UNCHANGED <<pc, fp, exc>>
    /\ UNCHANGED <<heap, variant, modules, include_nested, m1, todo, idx, module_name,
                   file_name, new_module, files, folders, sys_modules, report,
                   report_file, faults, attempted>>

\* an item whose name starts with "__": continue
WalkSkip ==
    /\ pc = "walk"
    /\ top.phase = "loop"
    /\ top.k <= Len(top.items)
    /\ IsDunder(top.items[top.k].name)
    /\ stack' = SetTop([top EXCEPT !.k = @ + 1])
    /\ UNCHANGED <<heap, variant, modules, include_nested, m1, todo, idx, pc, module_name,
                   file_name, new_module, fp, files, folders, sys_modules, report,
                   report_file, faults, attempted, wd, exc>>

\* WalkYield that resets the watchdog for the first item of an object only
WalkYieldFirstOnly ==
    /\ pc = "walk"
    /\ top.phase = "loop"
    /\ top.k <= Len(top.items)
    /\ ~IsDunder(top.items[top.k].name)
    /\ IF top.yields = 0
          THEN /\ stack' = SetTop([top EXCEPT !.phase = "yielded", !.yields = @ + 1])
               /\ wd' = [yields |-> wd.yields + 1, resolved |-> 0, written |-> 0]
          ELSE /\ stack' = SetTop([top EXCEPT !.phase = "yielded"])
               /\ UNCHANGED wd
    /\ UNCHANGED <<heap, variant, modules, include_nested, m1, todo, idx, pc, module_name,
                   file_name, new_module, fp, files, folders, sys_modules, report,
                   report_file, faults, attempted, exc>>

\* resetWDT(); sleep_us(1)
WalkYield ==
    /\ pc = "walk"
    /\ top.phase = "loop"
    /\ top.k <= Len(top.items)
    /\ ~IsDunder(top.items[top.k].name)
    /\ stack' = SetTop([top EXCEPT !.phase = "yielded", !.yields = @ + 1])
    /\ wd' = [yields |-> wd.yields + 1, resolved |-> 0, written |-> 0]
    /\ UNCHANGED <<heap, variant, modules, include_nested, m1, todo, idx, pc, module_name,
                   file_name, new_module, fp, files, folders, sys_modules, report,
                   report_file, faults, attempted, exc>>

\* the if / elif chain: write the item's fragment and, for a class at the
\* top level, call the walker on it
WalkEmit ==
    /\ pc = "walk"
    /\ top.phase = "yielded"
    /\ LET item == top.items[top.k]
           text == Fragment(item, top.indent)
           here == [top EXCEPT !.phase = "loop", !.k = @ + 1,
                               !.emitted = Append(@, [name |-> item.name, typ |-> item.typ,
                                                       text |-> text,
                                                       at |-> Len(files[fp]) + 1])]
       IN  /\ files' = [files EXCEPT ![fp] = Append(@, text)]
           /\ wd' = [wd EXCEPT !.written = @ + 1]
           /\ stack' = IF Category(item.typ, top.indent) = "CompositeType"
                          THEN Append(SetTop(here),
                                      Frame(item.obj, top.obj_name \o <<c_dot>> \o item.name,
                                            top.indent \o t_indent))
                          ELSE SetTop(here)
    /\ UNCHANGED <<heap, variant, modules, include_nested, m1, todo, idx, pc, module_name,
                   file_name, new_module, fp, folders, sys_modules, report,
                   report_file, faults, attempted, exc>>

\* the loop is through: del items, errors; return
WalkReturn ==
    /\ pc = "walk"
    /\ top.phase = "loop"
    /\ top.k > Len(top.items)
    /\ stack' = SubSeq(stack, 1, Len(stack) - 1)
    /\ pc' = IF Len(stack) = 1 THEN "record" ELSE "walk"
    /\ UNCHANGED <<heap, variant, modules, include_nested, m1, todo, idx, module_name,
                   file_name, new_module, fp, files, folders, sys_modules, report,
                   report_file, faults, attempted, wd, exc>>

(***************************************************************************)
(* The end of stub_one_module, and report().                               *)
(***************************************************************************)
\* self._report.append({"module": module_name, "file": file_name}); the with
\* block ends
RecordModule ==
    /\ pc = "record"
    /\ report' = Append(report, ModuleRecord(module_name, file_name))
    /\ fp' = <<>>
    /\ pc' = "unload"
    /\ UNCHANGED <<heap, variant, modules, include_nested, m1, todo, idx, module_name,
                   file_name, new_module, stack, files, folders, sys_modules,
                   report_file, faults, attempted, wd, exc>>

\* what "unloading" name leaves in sys.modules: min deletes the entry, full
\* only deletes its local new_module
Evict(cache, name) == IF variant = "min" THEN cache \ {name} ELSE cache

\* if not module_name in ["os", "sys", "logging", "gc"]: unload
Unload ==
    /\ pc = "unload"
    /\ IF ~In(module_name, KeepLoaded)
          THEN /\ new_module' = NoObj
               /\ sys_modules' = Evict(sys_modules, module_name)
          ELSE UNCHANGED <<new_module, sys_modules>>
    /\ pc' = "after"
    /\ UNCHANGED <<heap, variant, modules, include_nested, m1, todo, idx, module_name,
                   file_name, stack, fp, files, folders, report, report_file, faults,
                   attempted, wd, exc>>

\* the records report() writes: min puts the firmware and stubber records
\* first, full has them in self._report already
ReportBody ==
    IF variant = "min"
        THEN <<FirmwareRecord, StubberRecord(stubber_version_min)>> \o report
        ELSE report

\* report(): modules.json is written
Report ==
    /\ pc = "report"
    /\ report_file' = [written |-> TRUE, body |-> ReportBody]
    /\ pc' = "done"
    /\ UNCHANGED <<heap, variant, modules, include_nested, m1, todo, idx, module_name,
                   file_name, new_module, stack, fp, files, folders, sys_modules,
                   report, faults, attempted, wd, exc>>

\* report(): open raises, which report() swallows
ReportFault ==
    /\ pc = "report"
    /\ faults < MaxFaults
    /\ faults' = faults + 1
    /\ pc' = "done"
    /\ UNCHANGED <<heap, variant, modules, include_nested, m1, todo, idx, module_name,
                   file_name, new_module, stack, fp, files, folders, sys_modules,
                   report, report_file, attempted, wd, exc>>

Next ==
    \/ Clean
    \/ StartLoop
    \/ LoopSkip
    \/ LoopCall
    \/ LoopAfter
    \/ LoopEnd
    \/ StubEntry
    \/ StubEntryFolderFault
    \/ ImportModule
    \/ ImportFault
    \/ OpenStub
    \/ OpenFault
    \/ WalkEnter
    \/ WalkSkip
    \/ WalkYield
    \/ WalkEmit
    \/ WalkReturn
    \/ RecordModule
    \/ Unload
    \/ Report
    \/ ReportFault

Spec == Init /\ [][Next]_vars

(***************************************************************************)
(* What the claims are stated with.                                        *)
(***************************************************************************)
\* the frames whose loop has started
Running == {i \in 1..Len(stack) : stack[i].phase # "enter"}
Names(seq) == {seq[i].name : i \in 1..Len(seq)}
\* the items of a frame the loop is through with
Processed(fr) == {fr.items[i] : i \in 1..(fr.k - 1)}
\* the entries of emitted a frame wrote for name
EmittedFor(fr, name) == {j \in 1..Len(fr.emitted) : fr.emitted[j].name = name}
KnownTags == {tag_function, tag_bound_method, tag_str, tag_int, tag_float, tag_type}
NonePlaceholder(indent, name) == indent \o name \o t_none

(***************************************************************************)
(* C1: the walker is only ever entered at the module level (indent "") or  *)
(* one class level down (indent of four spaces), however deep classes are  *)
(* nested in each other; a member tagged <class 'type'> that the loop      *)
(* meets at a non-empty indent is written as "name = None" and not walked. *)
(***************************************************************************)
C1_OneLevelOfRecursion ==
    /\ Len(stack) <= 2
    /\ \A i \in 1..Len(stack) : stack[i].indent \in {<<>>, t_indent}
    /\ \A i \in 1..Len(stack) : \A j \in 1..Len(stack[i].emitted) :
          LET e == stack[i].emitted[j]
          IN  (e.typ = tag_type /\ stack[i].indent # <<>>)
                  => /\ e.text = NonePlaceholder(stack[i].indent, e.name)
                     /\ files[fp][e.at] = e.text
    /\ \A i \in 1..Len(stack) :
          (i > 1 /\ stack[i].phase = "enter") => stack[i - 1].indent = <<>>

\* the class Board of pinlib is being walked and its nested class Cpu was
\* written as a placeholder
C1_Witness ==
    /\ Len(stack) = 2
    /\ top.obj = O_Board
    /\ top.indent = t_indent
    /\ \E j \in 1..Len(top.emitted) :
          /\ top.emitted[j].name = a_Cpu
          /\ top.emitted[j].typ = tag_type
          /\ top.emitted[j].text = t_indent \o a_Cpu \o t_none

(***************************************************************************)
(* C2: the fragments of one walker call are written in ascending order of  *)
(* member name, and the items the loop runs over are the same for every    *)
(* order in which dir() may enumerate the same members.                    *)
(***************************************************************************)
C2_DeterministicOrder ==
    \A i \in Running :
        LET fr == stack[i]
        IN  /\ \A a, b \in 1..Len(fr.items) :
                  a < b => StrLess(fr.items[a].name, fr.items[b].name)
            /\ \A a, b \in 1..Len(fr.emitted) :
                  a < b => /\ StrLess(fr.emitted[a].name, fr.emitted[b].name)
                           /\ fr.emitted[a].at < fr.emitted[b].at
            /\ \A a \in 1..Len(fr.emitted) :
                  files[fp][fr.emitted[a].at] = fr.emitted[a].text
            /\ \A r \in AttributeOutcomes[fr.obj] :
                  Names(r.errors) = Names(fr.errors)
                      => /\ Names(r.result) = Names(fr.items)
                         /\ \A a \in 1..Len(fr.emitted) : \E b \in 1..Len(r.result) :
                               /\ r.result[b].name = fr.emitted[a].name
                               /\ Fragment(r.result[b], fr.indent) = fr.emitted[a].text

\* sample_mod has been walked to its end: Inner, NAME and f were written, in
\* this order, whatever order dir() had
C2_Witness ==
    /\ Len(stack) = 1
    /\ top.obj = O_sample_mod
    /\ top.k > Len(top.items)
    /\ [j \in 1..Len(top.emitted) |-> top.emitted[j].name] = <<a_Inner, a_NAME, a_f>>

(***************************************************************************)
(* C3: every resolved member whose name does not start with "__" gets      *)
(* exactly one fragment, that of the one branch its type tag selects, with *)
(* the placeholder "name = None" for every tag the chain does not know;    *)
(* a member whose name starts with "__" gets none; the walk never raises.  *)
(***************************************************************************)
C3_TotalClassification ==
    /\ \A i \in Running :
          LET fr == stack[i]
          IN  /\ \A it \in Processed(fr) :
                    IF StartsWith(it.name, <<c_underscore, c_underscore>>)
                       THEN EmittedFor(fr, it.name) = {}
                       ELSE /\ Cardinality(EmittedFor(fr, it.name)) = 1
                            /\ \A j \in EmittedFor(fr, it.name) :
                                  /\ fr.emitted[j].typ = it.typ
                                  /\ it.typ \notin KnownTags
                                        => fr.emitted[j].text = NonePlaceholder(fr.indent, it.name)
              /\ \A j \in 1..Len(fr.emitted) : \E it \in Processed(fr) :
                    it.name = fr.emitted[j].name
              /\ Len(fr.emitted) + (IF fr.phase = "yielded" THEN 1 ELSE 0) = fr.yields
    /\ \A e \in 1..Len(exc) : exc[e] \in {"OSError", "NameError"}

\* the package umqtt has been walked: its member simple, of the unknown tag
\* <class 'module'>, got the placeholder and its __name__ got nothing
C3_Witness ==
    /\ Len(stack) = 1
    /\ top.obj = O_umqtt
    /\ top.k > Len(top.items)
    /\ \E it \in Processed(top) : it.name = a___name__
    /\ Len(top.emitted) = 1
    /\ top.emitted[1].typ = "<class 'module'>"
    /\ top.emitted[1].text = a_simple \o t_none

(***************************************************************************)
(* C4: when getattr raises for some of an object's names, the walk of the  *)
(* object still runs to its end without raising: every failing name adds   *)
(* one entry to the call's error list and gets no fragment, and every      *)
(* other name that does not start with "__" gets its fragment.             *)
(***************************************************************************)
C4_UnreadableAttributeIsolated ==
    /\ \A i \in Running :
          LET fr == stack[i]
          IN  /\ Names(fr.items) \cup Names(fr.errors) = fr.dir
              /\ Names(fr.items) \cap Names(fr.errors) = {}
              /\ Len(fr.errors) = Cardinality(Names(fr.errors))
              /\ Len(fr.items) = Cardinality(Names(fr.items))
              /\ \A j \in 1..Len(fr.errors) : fr.errors[j].obj = fr.obj
              /\ Names(fr.emitted) \cap Names(fr.errors) = {}
              /\ fr.k > Len(fr.items)
                    => Names(fr.emitted) =
                          {n \in fr.dir \ Names(fr.errors) :
                              ~StartsWith(n, <<c_underscore, c_underscore>>)}
    /\ \A e \in 1..Len(exc) : exc[e] # "AttributeError"

\* pinlib has been walked to its end with irq and ratio both unreadable: the
\* two errors are collected and the siblings Board and freq are stubbed
C4_Witness ==
    /\ Len(stack) = 1
    /\ top.obj = O_pinlib
    /\ top.phase = "loop"
    /\ top.k > Len(top.items)
    /\ Names(top.errors) = {a_irq, a_ratio}
    /\ Names(top.emitted) = {a_Board, a_freq}

\* the module records of a report
ModuleRecords(rep) ==
    LET isModule(r) == r.kind = "module"
    IN  SelectSeq(rep, isModule)
RecordedModules == {ModuleRecords(report)[i].module : i \in 1..Len(ModuleRecords(report))}
Terminated == pc \in {"done", "aborted"}

(***************************************************************************)
(* C5: when the import of a name fails because the module is not on the    *)
(* runtime, stub_one_module returns without raising, no file is created    *)
(* for the name and no record is appended to the report.                   *)
(***************************************************************************)
C5_AbsentModuleSkipped ==
    /\ [](\A n \in attempted :
            ~OnRuntime(n) => /\ FileName(n) \notin DOMAIN files
                             /\ n \notin RecordedModules)
    /\ [][(pc = "import" /\ ~OnRuntime(module_name))
             => /\ pc' = "after"
                /\ exc' = exc
                /\ files' = files
                /\ report' = report]_vars

\* the import of does_not_exist has failed and the call has returned to the
\* loop, no exception on record
C5_Witness ==
    /\ pc = "after"
    /\ module_name = s_does_not_exist
    /\ s_does_not_exist \in attempted
    /\ exc = <<>>

(***************************************************************************)
(* C6: once a module's stub has been written, the module is still in the   *)
(* module cache if it is one of os, sys, logging, gc and is absent from    *)
(* the cache otherwise, when stub_one_module returns and at the end of the *)
(* run.                                                                    *)
(***************************************************************************)
C6_EvictionAllowList ==
    pc \in {"after", "loop", "report", "done"}
        => \A n \in RecordedModules : In(n, KeepLoaded) <=> n \in sys_modules

(***************************************************************************)
(* C7: when stubbing one module fails with an exception that is no         *)
(* expected import failure, the loop still goes through every remaining    *)
(* name of the catalog and the run still writes the report, with the       *)
(* records of the modules that succeeded.                                  *)
(***************************************************************************)
C7_RunLevelIsolation ==
    (exc # <<>> /\ Terminated)
        => /\ pc = "done"
           /\ idx > Len(todo)
           /\ report_file.written
                 => \A n \in RecordedModules :
                       \E i \in 1..Len(report_file.body) :
                          /\ report_file.body[i].kind = "module"
                          /\ report_file.body[i].module = n

(***************************************************************************)
(* C8: a name that starts with "_" (other than "_thread"), or is on the    *)
(* problematic list, or is on the excluded list is never imported, gets no *)
(* file and no record; "_thread" is eligible, and the loop attempts it.    *)
(***************************************************************************)
C8_SkippedNamesUntouched ==
    \A i \in 1..Len(todo) :
        LET n == todo[i]
        IN  /\ (IsInternal(n) \/ In(n, problematic) \/ In(n, excluded))
                  => /\ DottedName(n) \notin attempted
                     /\ FileName(n) \notin DOMAIN files
                     /\ DottedName(n) \notin RecordedModules
            /\ (n = s__thread /\ i < idx) => n \in attempted

(***************************************************************************)
(* C9: the run over the sample catalog os, does_not_exist, sample_mod.     *)
(* As claimed: the file of sample_mod holds, after the header, the class   *)
(* block of Inner with "n = 1", then the placeholder of f, then            *)
(* "NAME = 'x'"; there is no file for does_not_exist; the report has       *)
(* exactly the module records of os and sample_mod.                        *)
(* As amended: the same, with "NAME = 'x'" before the placeholder of f     *)
(* (ascending by code point, upper case before lower case).                *)
(***************************************************************************)
x_class_Inner == <<10, 99, 108, 97, 115, 115, 32, 73, 110, 110, 101, 114, 58, 10, 32, 32, 32, 32, 39, 39, 10>>  \* "\nclass Inner:\n    ''\n"
x_n == <<32, 32, 32, 32, 110, 32, 61, 32, 49, 10>>  \* '    n = 1\n'
x_f == <<100, 101, 102, 32, 102, 40, 41, 58, 10, 32, 32, 32, 32, 112, 97, 115, 115, 10, 10>>  \* 'def f():\n    pass\n\n'
x_NAME == <<78, 65, 77, 69, 32, 61, 32, 39, 120, 39, 10>>  \* "NAME = 'x'\n"

SampleRunDone ==
    /\ pc = "done"
    /\ {modules[i] : i \in 1..Len(modules)} = {s_os, s_does_not_exist, s_sample_mod}
    /\ faults = 0
SampleBody == SubSeq(files[FileName(s_sample_mod)], 2, Len(files[FileName(s_sample_mod)]))
SampleRest ==
    /\ FileName(s_sample_mod) \in DOMAIN files
    /\ Len(files[FileName(s_sample_mod)]) = 5
    /\ files[FileName(s_sample_mod)][1] =
          Header(IF variant = "min" THEN stubber_version_min ELSE stubber_version_full,
                 s_sample_mod)
    /\ FileName(s_does_not_exist) \notin DOMAIN files
    /\ [i \in 1..Len(ModuleRecords(report)) |-> ModuleRecords(report)[i].module]
          = <<s_os, s_sample_mod>>

C9_SampleRunAsClaimed ==
    SampleRunDone => (SampleRest /\ SampleBody = <<x_class_Inner, x_n, x_f, x_NAME>>)

C9_SampleRun ==
    SampleRunDone => (SampleRest /\ SampleBody = <<x_class_Inner, x_n, x_NAME, x_f>>)

\* the sample run has ended and left a file for sample_mod
C9_Witness ==
    /\ SampleRunDone
    /\ modules = SampleCatalog
    /\ FileName(s_sample_mod) \in DOMAIN files
    /\ report_file.written

(***************************************************************************)
(* C10: the yield point (resetWDT, sleep_us) runs exactly once for every   *)
(* attribute the loop does not skip, after the attribute was resolved and  *)
(* before its fragment is written.                                         *)
(* As claimed: between two consecutive yields of a module walk at most one *)
(* attribute is resolved and at most one fragment is written.              *)
(* As amended: the attributes of an object are all resolved when the walk  *)
(* of the object starts, before its first yield; between two consecutive   *)
(* yields at most one fragment is written, and nothing is resolved or      *)
(* written between an attribute's yield and its fragment; but all the      *)
(* members of a class are resolved between the yield of the class and the  *)
(* next one.                                                               *)
(***************************************************************************)
YieldPerAttribute ==
    \A i \in Running :
        LET fr == stack[i]
        IN  /\ fr.yields = Len(fr.emitted) + (IF fr.phase = "yielded" THEN 1 ELSE 0)
            /\ Len(fr.emitted) =
                  Cardinality({it \in Processed(fr) :
                                  ~StartsWith(it.name, <<c_underscore, c_underscore>>)})
            /\ fr.phase = "yielded"
                  => /\ fr.k <= Len(fr.items)
                     /\ fr.items[fr.k].name \notin Names(fr.emitted)

C10_YieldOrderAsClaimed ==
    /\ YieldPerAttribute
    /\ wd.yields > 0 => (wd.resolved <= 1 /\ wd.written <= 1)

C10_YieldOrder ==
    /\ YieldPerAttribute
    /\ \A i \in Running : Names(stack[i].items) \cup Names(stack[i].errors) = stack[i].dir
    /\ wd.yields > 0 => wd.written <= 1
    /\ (stack # <<>> /\ top.phase = "yielded") => (wd.written = 0 /\ wd.resolved = 0)
    /\ (wd.yields > 0 /\ wd.resolved > 0 /\ stack # <<>>)
          => \/ top.phase = "enter"
             \/ Len(stack) = 2 /\ top.yields = 0 /\ wd.resolved = Len(top.items)
             \/ Len(stack) = 1 /\ wd.written = 1

\* the class Inner has just been entered from the walk of sample_mod: both
\* of its members were resolved after the yield of Inner, before any other
C10_Witness ==
    /\ Len(stack) = 2
    /\ top.obj = O_Inner
    /\ top.phase = "loop"
    /\ top.yields = 0
    /\ wd.yields > 0
    /\ wd.resolved = 2
    /\ wd.written = 1

(***************************************************************************)
(* C11: in the loop of create_all_stubs every decision to stub a nested    *)
(* module (a name with '/') follows the free heap at the head of that      *)
(* iteration: once ensure_folder has returned, the nested module is        *)
(* imported exactly when that free heap exceeds 3200, whatever was read    *)
(* earlier in the run; and a low free heap never keeps a module that is    *)
(* not nested from being imported.                                         *)
(***************************************************************************)
\* create_module_stub is at or past its include_nested test for the nested
\* name of the current iteration
NestedDecided ==
    /\ variant = "min"
    /\ pc \in {"import", "after"}
    /\ IsNested(todo[idx])
    /\ module_name = DottedName(todo[idx])

\* the nested module of the current iteration is being stubbed
NestedStubbed == pc = "import" \/ module_name \in attempted

C11_GovernorFreshness ==
    /\ NestedDecided => (NestedStubbed <=> heap > NestedHeapLimit)
    /\ (variant = "min" /\ pc = "after" /\ ~IsNested(todo[idx]))
          => module_name \in attempted

=============================================================================
